---- MODULE Spec2Model ----
(***************************************************************************)
(* Model of the AI personality assessment backend:                         *)
(*   backend/services/assessment_logic.py   (assessment state machine,     *)
(*                                            profile store)               *)
(*   backend/services/openrouter_service.py (question pool draw, LLM       *)
(*                                            gateway, completion parser)  *)
(*   backend/routers/assessment.py          (HTTP outcome of each call)    *)
(*   backend/routers/candidate.py,                                         *)
(*   backend/routers/analytics.py           (reads of the stores)          *)
(***************************************************************************)
EXTENDS Integers, Sequences, FiniteSets, TLC

(***************************************************************************)
(* Part 1.  The completion parser of analyze_responses_for_profile.        *)
(*                                                                         *)
(* A completion text is a sequence of characters.  A well-formed JSON      *)
(* document inside the text is one element [c |-> "DOC", d |-> value];     *)
(* every other element is a plain character.  Cutting into a document      *)
(* (the [7:-3] slice with no closing fence) leaves text that json.loads    *)
(* refuses, as a proper prefix of a JSON text is never a JSON array.       *)
(***************************************************************************)

\* required_traits (openrouter_service.py:292), in the order of the prompt
required_traits ==
    {"Openness", "Conscientiousness", "Extraversion", "Agreeableness", "Neuroticism"}

\* the keys every item must carry (openrouter_service.py:296)
ItemKeys == {"trait", "score", "insights"}

\* JSON values met as item["score"]: k is the JSON/Python type, v its value
\* (float: v is the value in tenths; numstr: the string holding integer v)
ScoreVal(k, v) == [k |-> k, v |-> v]

\* Python int(x) of a value decoded by json.loads (openrouter_service.py:305):
\* int truncates a float toward zero, parses an integer string, maps a bool
\* to 0/1, raises ValueError on other strings, TypeError on null,
\* OverflowError on Infinity.
IntOf(s) ==
    CASE s.k = "int"    -> [err |-> "none", v |-> s.v]
      [] s.k = "float"  -> [err |-> "none",
                            v |-> IF s.v >= 0 THEN s.v \div 10 ELSE -((-s.v) \div 10)]
      [] s.k = "numstr" -> [err |-> "none", v |-> s.v]
      [] s.k = "bool"   -> [err |-> "none", v |-> s.v]
      [] s.k = "badstr" -> [err |-> "ValueError", v |-> 0]
      [] s.k = "null"   -> [err |-> "TypeError", v |-> 0]
      [] s.k = "inf"    -> [err |-> "OverflowError", v |-> 0]

\* str(item["insights"]) (openrouter_service.py:317)
StrOf(x) == IF x = "null" THEN "None" ELSE x

\* TraitScore(trait, score, insights) (models.py:6-9)
TraitScore(t, s, i) == [trait |-> t, score |-> s, insights |-> i]

\* one element of the decoded array
Item(isdict, keys, t, s, i) ==
    [isdict |-> isdict, keys |-> keys, trait |-> t, score |-> s, insights |-> i]

\* the score check of one item (openrouter_service.py:304-311):
\* "skip" when int() raises ValueError/TypeError or the value is out of range,
\* "raise" when int() raises anything else, "keep" otherwise
ScoreCheckNoLower(item) ==
    LET r == IntOf(item.score) IN
    IF r.err \in {"ValueError", "TypeError"} THEN "skip"
    ELSE IF r.err # "none" THEN "raise"
    ELSE IF r.v <= 100 THEN "keep" ELSE "skip"

ScoreCheckExclusive(item) ==
    LET r == IntOf(item.score) IN
    IF r.err \in {"ValueError", "TypeError"} THEN "skip"
    ELSE IF r.err # "none" THEN "raise"
    ELSE IF 0 < r.v /\ r.v < 100 THEN "keep" ELSE "skip"

ScoreCheck(item) ==
    LET r == IntOf(item.score) IN
    IF r.err \in {"ValueError", "TypeError"} THEN "skip"
    ELSE IF r.err # "none" THEN "raise"
    ELSE IF 0 <= r.v /\ r.v <= 100 THEN "keep" ELSE "skip"

\* the for loop over analysis_result (openrouter_service.py:295-319):
\* acc = [err, trait_scores, found_traits]
RECURSIVE ItemLoop(_, _, _)
ItemLoop(items, i, acc) ==
    IF i > Len(items) \/ acc.err # "none" THEN acc
    ELSE LET item == items[i] IN
         IF ~item.isdict \/ ~(ItemKeys \subseteq item.keys)
         THEN [acc EXCEPT !.err = "ValueError"]
         ELSE IF item.trait \notin required_traits
         THEN ItemLoop(items, i + 1, acc)
         ELSE LET c == ScoreCheck(item) IN
              IF c = "raise" THEN [acc EXCEPT !.err = "Exception"]
              ELSE IF c = "skip" THEN ItemLoop(items, i + 1, acc)
              ELSE ItemLoop(items, i + 1,
                     [acc EXCEPT
                        !.trait_scores = Append(@, TraitScore(item.trait,
                                IntOf(item.score).v, StrOf(item.insights))),
                        !.found_traits = @ \cup {item.trait}])

\* characters and documents of a completion text ("bt" is the backtick,
\* "sp" a whitespace character)
NoDoc == [kind |-> "none", items |-> <<>>]
Ch(c) == [c |-> c, d |-> NoDoc]
DocEl(d) == [c |-> "DOC", d |-> d]
ListDoc(items) == [kind |-> "list", items |-> items]
ObjectDoc == [kind |-> "object", items |-> <<>>]

FenceJson == <<Ch("bt"), Ch("bt"), Ch("bt"), Ch("j"), Ch("s"), Ch("o"), Ch("n")>>
Fence == <<Ch("bt"), Ch("bt"), Ch("bt")>>

\* str.strip(): drop leading and trailing whitespace
RECURSIVE LStrip(_)
LStrip(s) == IF s # <<>> /\ s[1] = Ch("sp") THEN LStrip(Tail(s)) ELSE s
RECURSIVE RStrip(_)
RStrip(s) ==
    IF s # <<>> /\ s[Len(s)] = Ch("sp") THEN RStrip(SubSeq(s, 1, Len(s) - 1)) ELSE s
Strip(s) == RStrip(LStrip(s))

\* str.startswith(p)
StartsWith(s, p) == Len(s) >= Len(p) /\ SubSeq(s, 1, Len(p)) = p

\* s[a:-3] of Python
SliceToMinus3(s, a) == SubSeq(s, a + 1, Len(s) - 3)

\* the fence cleaning (openrouter_service.py:278-281)
CleanFence(content) ==
    IF StartsWith(Strip(content), FenceJson)
    THEN Strip(SliceToMinus3(Strip(content), 7))
    ELSE IF StartsWith(Strip(content), Fence)
    THEN Strip(SliceToMinus3(Strip(content), 3))
    ELSE content

\* json.loads (openrouter_service.py:285): the text, whitespace aside, must be
\* exactly one JSON document
JsonLoads(text) ==
    LET t == Strip(text) IN
    IF Len(t) = 1 /\ t[1].c = "DOC"
    THEN [err |-> "none", value |-> t[1].d]
    ELSE [err |-> "JSONDecodeError", value |-> NoDoc]

\* the result of the parse: Python None, or the list of TraitScore
ParseNone(why) == [ok |-> FALSE, why |-> why, trait_scores |-> <<>>]
ParseOk(ts) == [ok |-> TRUE, why |-> "none", trait_scores |-> ts]

\* the final check found_traits != required_traits (openrouter_service.py:322-330)
FinishPartial(acc) == ParseOk(acc.trait_scores)

FinishByCount(acc) ==
    IF Len(acc.trait_scores) # 5
    THEN ParseNone("IncompleteAnalysis")
    ELSE ParseOk(acc.trait_scores)

Finish(acc) ==
    IF acc.found_traits # required_traits
    THEN ParseNone("IncompleteAnalysis")
    ELSE ParseOk(acc.trait_scores)

\* the structure check (openrouter_service.py:288-289)
ShapeOk(analysis_result) ==
    analysis_result.kind = "list" /\ Len(analysis_result.items) = 5

\* the try block of analyze_responses_for_profile (openrouter_service.py:273-340)
ParseCompletion(llm_response_content) ==
    LET j == JsonLoads(CleanFence(llm_response_content)) IN
    IF j.err # "none" THEN ParseNone("MalformedJSON")
    ELSE IF ~ShapeOk(j.value) THEN ParseNone("SchemaError")
    ELSE LET acc == ItemLoop(j.value.items, 1,
                     [err |-> "none", trait_scores |-> <<>>, found_traits |-> {}])
         IN IF acc.err = "ValueError" THEN ParseNone("SchemaError")
            ELSE IF acc.err # "none" THEN ParseNone("Exception")
            ELSE Finish(acc)

(***************************************************************************)
(* Part 2.  The assessment state machine, the gateway and the stores.      *)
(***************************************************************************)

\* The bound of the model: the size of a scenario never exceeds MaxLoad. The
\* size is, for every assessment id generated, one plus the number of
\* questions it can be asked (the length of the pool), plus the number of
\* analyses suspended at an await.
MaxLoad == 5

\* the longest pool that leaves room for one assessment and its analysis,
\* and the most analyses in flight over a pool of one question
MaxPool == MaxLoad - 2
MaxTasks == MaxLoad - 2

\* candidate ids, named by first use; question ids are numbers, named by
\* first occurrence in the pool, and 0 is an id no pool holds
Candidates == {"c1", "c2"}

\* The question pools load_questions can return (config.py:48-64): any list,
\* ids possibly repeated.
Pools ==
    {p \in UNION {[1..n -> 1..MaxPool] : n \in 0..MaxPool} :
        \A i \in DOMAIN p : p[i] = 1 \/ \E j \in 1..(i - 1) : p[j] >= p[i] - 1}

Range(f) == {f[x] : x \in DOMAIN f}

\* Question (models.py:17-20); text and targeted_trait follow from the pool entry
Question(id) == [id |-> id]

\* Answer (models.py:25-28); the response text and the targeted trait are
\* free and never read by the state machine
Answer(qid) == [question_id |-> qid, response |-> "r"]

\* last_answer: Optional[Answer], None as the empty sequence; the answers
\* name a question of the pool or the unknown question 0
LastAnswers(pool) == {<<>>} \cup {<<Answer(q)>> : q \in {0} \cup Range(pool)}

\* PersonalityProfile (models.py:11-15)
PersonalityProfile(c, ts, sm) ==
    [candidate_id |-> c, model_type |-> "BigFive", traits |-> ts, summary |-> sm]

\* dict.get's None for a candidate without profile
NoProfile == [candidate_id |-> "", model_type |-> "None", traits |-> <<>>, summary |-> <<>>]

\* the default summary text (openrouter_service.py:400)
DefaultSummary == <<Ch("Profile analysis generated")>>

\* ---- gateway responses: what call_openrouter_api returns
\* (openrouter_service.py:36-109): None on any failure, else the decoded body
Response(kind, content) == [kind |-> kind, content |-> content]
RespNone == Response("None", <<>>)            \* timeout, network, HTTP status, ...
RespNoChoices == Response("nochoices", <<>>)  \* a JSON object without choices
RespContent(content) == Response("ok", content)

\* completions the analysis call may bring back
GoodItem(t, v) == Item(TRUE, ItemKeys, t, ScoreVal("int", v), "text")
GoodItemsA ==
    <<GoodItem("Openness", 80), GoodItem("Conscientiousness", 55),
      GoodItem("Extraversion", 0), GoodItem("Agreeableness", 100),
      GoodItem("Neuroticism", 40)>>
AnalysisCompletions ==
    { <<DocEl(ListDoc(GoodItemsA))>>,
      FenceJson \o <<Ch("sp"), DocEl(ListDoc(GoodItemsA)), Ch("sp")>> \o Fence,
      <<DocEl(ListDoc(SubSeq(GoodItemsA, 1, 4)))>>,
      <<DocEl(ListDoc([GoodItemsA EXCEPT ![3] = GoodItem("Extraversion", 150)]))>>,
      <<DocEl(ListDoc([GoodItemsA EXCEPT ![5] = GoodItem("Openness", 10)]))>>,
      <<DocEl(ListDoc(GoodItemsA \o <<GoodItem("Openness", 10)>>))>>,
      <<Ch("x"), DocEl(ListDoc(GoodItemsA))>> }
AnalysisResponses ==
    {RespNone, RespNoChoices} \cup {RespContent(c) : c \in AnalysisCompletions}

\* completions the summary call may bring back
SummaryCompletions == {<<>>, <<Ch("sp"), Ch("x")>>}
SummaryResponses ==
    {RespNone, RespNoChoices} \cup {RespContent(c) : c \in SummaryCompletions}

VARIABLES
    QUESTION_POOL,    \* config.QUESTION_POOL, fixed at start-up
    api_key,          \* whether settings.OPENROUTER_API_KEY is set
    uuids,            \* number of assessment ids uuid4 has produced
    assessments_db,   \* assessment id -> record (assessment_logic.py:18)
    profiles_db,      \* candidate id -> profile or NoProfile (assessment_logic.py:19)
    tasks,            \* the TriggerAnalysis requests suspended at an await
    hist,             \* per assessment: whether TriggerAnalysis was ever called
                      \* on it, and the Advance calls made before that
    last,             \* what the last handler step did and returned
    completion,       \* the parser on its own: the completion text it is given
    parse_out,        \* the parser on its own: what it returned, or NotParsed
    analytics         \* the analytics on their own: the profiles written so
                      \* far, and the query just made with its answer

vars ==
    <<QUESTION_POOL, api_key, uuids, assessments_db, profiles_db, tasks, hist, last,
      completion, parse_out, analytics>>

\* the parser was not run
NotParsed == [ok |-> FALSE, why |-> "not parsed", trait_scores |-> <<>>]

\* traits: Optional[List[str]] of a comparison request
Traits(given, list) == [given |-> given, list |-> list]

\* the analytics record: `writes` profiles were written, and the last step
\* was the query op(candidate_ids, traits) which returned out
Analytics(writes, op, candidate_ids, traits, out) ==
    [writes |-> writes, op |-> op, candidate_ids |-> candidate_ids,
     traits |-> traits, out |-> out]
NoQuery(writes) == Analytics(writes, "none", <<>>, Traits(FALSE, <<>>), <<>>)

\* the size of the scenario so far, bounded by MaxLoad
InFlight == {t \in 1..MaxTasks : tasks[t].pc # "idle"}
Load == uuids * (Len(QUESTION_POOL) + 1) + Cardinality(InFlight)

\* the candidate ids a new request may name: those seen and the next one
CandidateChoices == IF uuids = 0 THEN {"c1"} ELSE Candidates

IdleTask ==
    [pc |-> "idle", assessment_id |-> 0, sent |-> <<>>, trait_scores |-> <<>>, calls |-> 0]

\* last: the handler step just taken (op, the assessment id of the request),
\* what it returned (outcome, http status, question id, profile), the gateway
\* requests it sent, and whether it logged the warning of a non-matching
\* answer (assessment_logic.py:61); for a read of the stores, the candidate
\* id of the request and the list of summaries returned
LastOf(op, aid, ignored, outcome, http, question, profile, gateway) ==
    [op |-> op, assessment_id |-> aid, answer_ignored |-> ignored,
     outcome |-> outcome, http |-> http,
     question |-> question, profile |-> profile, gateway |-> gateway,
     candidate_id |-> "", summaries |-> <<>>]

Last(op, aid, outcome, http, question, profile, gateway) ==
    LastOf(op, aid, FALSE, outcome, http, question, profile, gateway)

Init ==
    /\ QUESTION_POOL \in Pools
    /\ api_key \in BOOLEAN
    /\ uuids = 0
    /\ assessments_db = <<>>
    /\ profiles_db = [c \in Candidates |-> NoProfile]
    /\ tasks = [t \in 1..MaxTasks |-> IdleTask]
    /\ hist = <<>>
    /\ last = Last("Init", 0, "none", 0, 0, NoProfile, 0)
    /\ completion = <<>>
    /\ parse_out = NotParsed
    /\ analytics = NoQuery(0)

\* get_next_question_from_pool (openrouter_service.py:114-132): the ids
\* random.choice may pick; empty when the function returns None
AvailableAny(pool, asked_question_ids) == Range(pool)

Available(pool, asked_question_ids) ==
    {pool[i] : i \in {j \in DOMAIN pool : pool[j] \notin Range(asked_question_ids)}}

\* start_new_assessment (assessment_logic.py:23-45) and the router's
\* start_assessment (routers/assessment.py:16-33)
StartAssessmentAllocates(candidate_id) ==
    /\ Load + Len(QUESTION_POOL) + 1 <= MaxLoad
    /\ uuids' = uuids + 1
    /\ \E qs \in IF Available(QUESTION_POOL, <<>>) = {} THEN {<<>>}
                 ELSE {<<q>> : q \in Available(QUESTION_POOL, <<>>)} :
         /\ assessments_db' =
              [a \in DOMAIN assessments_db \cup {uuids + 1} |->
                 IF a = uuids + 1
                 THEN [candidate_id |-> candidate_id,
                       status |-> "In Progress",
                       questions |-> [i \in DOMAIN qs |-> Question(qs[i])],
                       answers |-> <<>>,
                       asked_question_ids |-> qs]
                 ELSE assessments_db[a]]
         /\ hist' = [a \in DOMAIN hist \cup {uuids + 1} |->
                       IF a = uuids + 1 THEN [advances |-> 0, analyzed |-> FALSE]
                       ELSE hist[a]]
         /\ last' = IF qs = <<>>
                    THEN Last("StartAssessment", uuids + 1, "EmptyPool", 500, 0, NoProfile, 0)
                    ELSE Last("StartAssessment", uuids + 1, "question", 201, qs[1],
                              NoProfile, 0)
    /\ UNCHANGED <<QUESTION_POOL, api_key, profiles_db, tasks, completion, parse_out, analytics>>

StartAssessment(candidate_id) ==
    /\ Load + Len(QUESTION_POOL) + 1 <= MaxLoad
    /\ uuids' = uuids + 1
    /\ LET assessment_id == uuids + 1 IN
       IF Available(QUESTION_POOL, <<>>) = {}
       THEN /\ last' = Last("StartAssessment", assessment_id, "EmptyPool", 500, 0, NoProfile, 0)
            /\ UNCHANGED <<assessments_db, hist>>
       ELSE \E q \in Available(QUESTION_POOL, <<>>) :
            /\ assessments_db' =
                 [a \in DOMAIN assessments_db \cup {assessment_id} |->
                    IF a = assessment_id
                    THEN [candidate_id |-> candidate_id,
                          status |-> "In Progress",
                          questions |-> <<Question(q)>>,
                          answers |-> <<>>,
                          asked_question_ids |-> <<q>>]
                    ELSE assessments_db[a]]
            /\ hist' = [a \in DOMAIN hist \cup {assessment_id} |->
                          IF a = assessment_id
                          THEN [advances |-> 0, analyzed |-> FALSE]
                          ELSE hist[a]]
            /\ last' = Last("StartAssessment", assessment_id, "question", 201, q, NoProfile, 0)
    /\ UNCHANGED <<QUESTION_POOL, api_key, profiles_db, tasks, completion, parse_out, analytics>>

\* the answer storing of get_next_assessment_question (assessment_logic.py:54-61)
StoreAnswerAlways(assessment_data, last_answer) ==
    IF last_answer # <<>>
    THEN Append(assessment_data.answers, last_answer[1])
    ELSE assessment_data.answers

StoreAnswer(assessment_data, last_answer) ==
    IF /\ last_answer # <<>>
       /\ assessment_data.questions # <<>>
       /\ last_answer[1].question_id =
            assessment_data.questions[Len(assessment_data.questions)].id
    THEN Append(assessment_data.answers, last_answer[1])
    ELSE assessment_data.answers

\* the end test len(asked_ids) >= MAX_QUESTIONS (assessment_logic.py:64-67)
ReachedMaxEarly(pool, asked_ids) == Len(asked_ids) + 1 >= Len(pool)

ReachedMax(pool, asked_ids) == Len(asked_ids) >= Len(pool)

\* hist of an assessment TriggerAnalysis was called on: the count is dropped
Analyzed == [advances |-> 0, analyzed |-> TRUE]

\* the count of Advance calls kept in hist: exact up to the pool's length,
\* then "more"
CountUp(n) == IF n > Len(QUESTION_POOL) THEN n ELSE n + 1

\* get_next_assessment_question (assessment_logic.py:47-84) and the router's
\* get_next_question (routers/assessment.py:36-52)
AdvanceAssessmentAnyStatus(assessment_id, last_answer) ==
    /\ IF assessment_id \notin DOMAIN assessments_db
       THEN /\ last' = Last("AdvanceAssessment", assessment_id, "null", 200, 0, NoProfile, 0)
            /\ UNCHANGED <<assessments_db, hist>>
       ELSE LET assessment_data == assessments_db[assessment_id]
                asked_ids == assessment_data.asked_question_ids
                stored == [assessment_data EXCEPT
                             !.answers = StoreAnswer(assessment_data, last_answer)]
                ignored == last_answer # <<>> /\ stored = assessment_data
            IN
            /\ hist' = IF hist[assessment_id].analyzed THEN hist
                       ELSE [hist EXCEPT ![assessment_id].advances = CountUp(@)]
            /\ IF \/ ReachedMax(QUESTION_POOL, asked_ids)
                  \/ Available(QUESTION_POOL, asked_ids) = {}
               THEN /\ assessments_db' =
                         [assessments_db EXCEPT ![assessment_id] =
                            [stored EXCEPT !.status = "Pending Analysis"]]
                    /\ last' = LastOf("AdvanceAssessment", assessment_id, ignored,
                                      "null", 200, 0, NoProfile, 0)
               ELSE \E q \in Available(QUESTION_POOL, asked_ids) :
                    /\ assessments_db' =
                         [assessments_db EXCEPT ![assessment_id] =
                            [stored EXCEPT
                               !.questions = Append(@, Question(q)),
                               !.asked_question_ids = Append(@, q)]]
                    /\ last' = LastOf("AdvanceAssessment", assessment_id, ignored,
                                      "question", 200, q, NoProfile, 0)
    /\ UNCHANGED <<QUESTION_POOL, api_key, uuids, profiles_db, tasks, completion,
                   parse_out, analytics>>

AdvanceAssessment(assessment_id, last_answer) ==
    /\ IF assessment_id \notin DOMAIN assessments_db
       THEN /\ last' = Last("AdvanceAssessment", assessment_id, "null", 200, 0, NoProfile, 0)
            /\ UNCHANGED <<assessments_db, hist>>
       ELSE LET assessment_data == assessments_db[assessment_id]
                asked_ids == assessment_data.asked_question_ids
                stored == [assessment_data EXCEPT
                             !.answers = StoreAnswer(assessment_data, last_answer)]
                ignored == last_answer # <<>> /\ stored = assessment_data
            IN
            /\ hist' = IF hist[assessment_id].analyzed THEN hist
                       ELSE [hist EXCEPT ![assessment_id].advances = CountUp(@)]
            /\ IF assessment_data.status # "In Progress"
               THEN /\ last' = Last("AdvanceAssessment", assessment_id, "null", 200, 0,
                                    NoProfile, 0)
                    /\ UNCHANGED assessments_db
               ELSE IF \/ ReachedMax(QUESTION_POOL, asked_ids)
                       \/ Available(QUESTION_POOL, asked_ids) = {}
               THEN /\ assessments_db' =
                         [assessments_db EXCEPT ![assessment_id] =
                            [stored EXCEPT !.status = "Pending Analysis"]]
                    /\ last' = LastOf("AdvanceAssessment", assessment_id, ignored,
                                      "null", 200, 0, NoProfile, 0)
               ELSE \E q \in Available(QUESTION_POOL, asked_ids) :
                    /\ assessments_db' =
                         [assessments_db EXCEPT ![assessment_id] =
                            [stored EXCEPT
                               !.questions = Append(@, Question(q)),
                               !.asked_question_ids = Append(@, q)]]
                    /\ last' = LastOf("AdvanceAssessment", assessment_id, ignored,
                                      "question", 200, q, NoProfile, 0)
    /\ UNCHANGED <<QUESTION_POOL, api_key, uuids, profiles_db, tasks, completion,
                   parse_out, analytics>>

\* the statuses process_assessment_analysis goes on from (assessment_logic.py:94)
AnalyzableWithFailed ==
    {"Pending Analysis", "In Progress",
     "Analysis Failed (No Answers)", "Analysis Failed (LLM Error)"}

AnalyzablePendingOnly == {"Pending Analysis"}

AnalyzableWithCompleted == {"Pending Analysis", "In Progress", "Completed"}

Analyzable == {"Pending Analysis", "In Progress"}

\* what trigger_analysis answers when the service returned None
\* (routers/assessment.py:64-82), from the stores as they are then
AnalyzeFailureByStatusCheck(db, assessment_id) ==
    IF assessment_id \notin DOMAIN db
    THEN [outcome |-> "NotFound", http |-> 404]
    ELSE IF db[assessment_id].status \notin {"Pending Analysis", "In Progress"}
    THEN [outcome |-> "InvalidState", http |-> 400]
    ELSE [outcome |-> "Failed", http |-> 400]

AnalyzeFailure(db, assessment_id) ==
    IF assessment_id \notin DOMAIN db
    THEN [outcome |-> "NotFound", http |-> 404]
    ELSE IF db[assessment_id].status = "Analysis Failed (No Answers)"
    THEN [outcome |-> "NoAnswers", http |-> 400]
    ELSE IF db[assessment_id].status = "Analysis Failed (LLM Error)"
    THEN [outcome |-> "LLMError", http |-> 503]
    ELSE IF db[assessment_id].status \notin {"Pending Analysis", "In Progress"}
    THEN [outcome |-> "InvalidState", http |-> 400]
    ELSE [outcome |-> "Failed", http |-> 400]

\* how a handler ends on None or on a profile (routers/assessment.py:62-85)
AnalyzeReturn(op, db, assessment_id, profile) ==
    IF profile = NoProfile
    THEN Last(op, assessment_id, AnalyzeFailure(db, assessment_id).outcome,
              AnalyzeFailure(db, assessment_id).http, 0, NoProfile, 0)
    ELSE Last(op, assessment_id, "profile", 200, 0, profile, 0)

\* an exception no handler catches: FastAPI answers 500
AnalyzeRaise(op, assessment_id) ==
    Last(op, assessment_id, "Exception", 500, 0, NoProfile, 0)

\* a handler suspended at an await, having sent `gateway` requests in this step
AnalyzePending(op, assessment_id, gateway) ==
    Last(op, assessment_id, "pending", 0, 0, NoProfile, gateway)

FreeTask == {t \in 1..MaxTasks : tasks[t].pc = "idle" /\ \A u \in 1..(t - 1) : tasks[u].pc # "idle"}

\* the test `if not answers` (assessment_logic.py:108)
HasNoAnswersNever(answers) == FALSE

HasNoAnswers(answers) == answers = <<>>

\* the checks analyze_responses_for_profile makes before it builds the prompt
\* (openrouter_service.py:141-146): TRUE when it returns None at once
AnalyzeRefusesNoAnswersOnly(answers, key) == answers = <<>>

AnalyzeRefuses(answers, key) == answers = <<>> \/ ~key

\* process_assessment_analysis up to its first suspension
\* (assessment_logic.py:86-117, openrouter_service.py:139-146, 47-71)
TriggerAnalysis(assessment_id) ==
    /\ IF assessment_id \notin DOMAIN assessments_db
       THEN /\ last' = AnalyzeReturn("TriggerAnalysis", assessments_db, assessment_id, NoProfile)
            /\ UNCHANGED <<assessments_db, tasks, hist>>
       ELSE LET assessment_data == assessments_db[assessment_id] IN
            /\ hist' = [hist EXCEPT ![assessment_id] = Analyzed]
            /\ IF assessment_data.status \notin Analyzable
               THEN /\ last' = AnalyzeReturn("TriggerAnalysis", assessments_db, assessment_id,
                                  IF assessment_data.status = "Completed"
                                  THEN profiles_db[assessment_data.candidate_id]
                                  ELSE NoProfile)
                    /\ UNCHANGED <<assessments_db, tasks>>
               ELSE IF HasNoAnswers(assessment_data.answers)
               THEN /\ assessments_db' = [assessments_db EXCEPT
                          ![assessment_id].status = "Analysis Failed (No Answers)"]
                    /\ last' = AnalyzeReturn("TriggerAnalysis", assessments_db',
                                              assessment_id, NoProfile)
                    /\ UNCHANGED tasks
               ELSE IF AnalyzeRefuses(assessment_data.answers, api_key)
               THEN /\ assessments_db' = [assessments_db EXCEPT
                          ![assessment_id].status = "Analysis Failed (LLM Error)"]
                    /\ last' = AnalyzeReturn("TriggerAnalysis", assessments_db',
                                              assessment_id, NoProfile)
                    /\ UNCHANGED tasks
               ELSE /\ Load < MaxLoad
                    /\ \E t \in FreeTask :
                       tasks' = [tasks EXCEPT ![t] =
                          [pc |-> "await_analysis", assessment_id |-> assessment_id,
                           sent |-> assessment_data.answers, trait_scores |-> <<>>,
                           calls |-> 1]]
                    /\ last' = AnalyzePending("TriggerAnalysis", assessment_id, 1)
                    /\ UNCHANGED assessments_db
    /\ UNCHANGED <<QUESTION_POOL, api_key, uuids, profiles_db, completion, parse_out, analytics>>

\* the first gateway call returns: analyze_responses_for_profile finishes
\* (openrouter_service.py:266-340) and process_assessment_analysis goes on to
\* the sleep of generate_profile_summary (assessment_logic.py:117-125,
\* openrouter_service.py:349-352)
AnalysisResponse(t, response_data) ==
    /\ tasks[t].pc = "await_analysis"
    /\ LET assessment_id == tasks[t].assessment_id
           parsed == IF response_data.kind # "ok"
                     THEN ParseNone("GatewayFailure")
                     ELSE ParseCompletion(response_data.content)
       IN IF ~parsed.ok
          THEN /\ assessments_db' = [assessments_db EXCEPT
                     ![assessment_id].status = "Analysis Failed (LLM Error)"]
               /\ tasks' = [tasks EXCEPT ![t] = IdleTask]
               /\ last' = AnalyzeReturn("AnalysisResponse", assessments_db',
                                         assessment_id, NoProfile)
          ELSE /\ tasks' = [tasks EXCEPT ![t].pc = "await_sleep",
                                        ![t].trait_scores = parsed.trait_scores]
               /\ last' = AnalyzePending("AnalysisResponse", assessment_id, 0)
               /\ UNCHANGED assessments_db
    /\ UNCHANGED <<QUESTION_POOL, api_key, uuids, profiles_db, hist, completion,
                   parse_out, analytics>>

\* the sleep ends: the summary prompt is sent (openrouter_service.py:353-383, 47-71)
SummaryRequest(t) ==
    /\ tasks[t].pc = "await_sleep"
    /\ tasks' = [tasks EXCEPT ![t].pc = "await_summary", ![t].calls = @ + 1]
    /\ last' = AnalyzePending("SummaryRequest", tasks[t].assessment_id, 1)
    /\ UNCHANGED <<QUESTION_POOL, api_key, uuids, assessments_db, profiles_db, hist,
                   completion, parse_out, analytics>>

\* the summary text of generate_profile_summary (openrouter_service.py:386-403)
SummaryOf(content) == Strip(IF content = <<>> THEN DefaultSummary ELSE content)

\* the second gateway call returns (openrouter_service.py:383-403) and
\* process_assessment_analysis stores the profile (assessment_logic.py:125-138)
SummaryResponseMarksCandidate(t, response_data) ==
    /\ tasks[t].pc = "await_summary"
    /\ tasks' = [tasks EXCEPT ![t] = IdleTask]
    /\ LET assessment_id == tasks[t].assessment_id
           candidate_id == assessments_db[assessment_id].candidate_id
           profile == PersonalityProfile(candidate_id, tasks[t].trait_scores,
                                         SummaryOf(response_data.content))
       IN IF response_data.kind # "ok"
          THEN /\ last' = AnalyzeRaise("SummaryResponse", assessment_id)
               /\ UNCHANGED <<assessments_db, profiles_db>>
          ELSE /\ profiles_db' = [profiles_db EXCEPT ![candidate_id] = profile]
               /\ assessments_db' =
                    [a \in DOMAIN assessments_db |->
                       IF assessments_db[a].candidate_id = candidate_id
                       THEN [assessments_db[a] EXCEPT !.status = "Completed"]
                       ELSE assessments_db[a]]
               /\ last' = AnalyzeReturn("SummaryResponse", assessments_db',
                                         assessment_id, profile)
    /\ UNCHANGED <<QUESTION_POOL, api_key, uuids, hist, completion, parse_out, analytics>>

SummaryResponseKeepsFirst(t, response_data) ==
    /\ tasks[t].pc = "await_summary"
    /\ tasks' = [tasks EXCEPT ![t] = IdleTask]
    /\ LET assessment_id == tasks[t].assessment_id
           candidate_id == assessments_db[assessment_id].candidate_id
           profile == PersonalityProfile(candidate_id, tasks[t].trait_scores,
                                         SummaryOf(response_data.content))
       IN IF response_data.kind # "ok"
          THEN /\ last' = AnalyzeRaise("SummaryResponse", assessment_id)
               /\ UNCHANGED <<assessments_db, profiles_db>>
          ELSE /\ profiles_db' = IF profiles_db[candidate_id] = NoProfile
                                 THEN [profiles_db EXCEPT ![candidate_id] = profile]
                                 ELSE profiles_db
               /\ assessments_db' = [assessments_db EXCEPT
                     ![assessment_id].status = "Completed"]
               /\ last' = AnalyzeReturn("SummaryResponse", assessments_db',
                                         assessment_id, profile)
    /\ UNCHANGED <<QUESTION_POOL, api_key, uuids, hist, completion, parse_out, analytics>>

SummaryResponseFallsBack(t, response_data) ==
    /\ tasks[t].pc = "await_summary"
    /\ tasks' = [tasks EXCEPT ![t] = IdleTask]
    /\ LET assessment_id == tasks[t].assessment_id
           candidate_id == assessments_db[assessment_id].candidate_id
           profile == PersonalityProfile(candidate_id, tasks[t].trait_scores,
                         SummaryOf(IF response_data.kind # "ok" THEN <<>>
                                   ELSE response_data.content))
       IN /\ profiles_db' = [profiles_db EXCEPT ![candidate_id] = profile]
          /\ assessments_db' = [assessments_db EXCEPT
                ![assessment_id].status = "Completed"]
          /\ last' = AnalyzeReturn("SummaryResponse", assessments_db',
                                    assessment_id, profile)
    /\ UNCHANGED <<QUESTION_POOL, api_key, uuids, hist, completion, parse_out, analytics>>

SummaryResponse(t, response_data) ==
    /\ tasks[t].pc = "await_summary"
    /\ tasks' = [tasks EXCEPT ![t] = IdleTask]
    /\ LET assessment_id == tasks[t].assessment_id
           candidate_id == assessments_db[assessment_id].candidate_id
           profile == PersonalityProfile(candidate_id, tasks[t].trait_scores,
                                         SummaryOf(response_data.content))
       IN IF response_data.kind # "ok"
          THEN /\ last' = AnalyzeRaise("SummaryResponse", assessment_id)
               /\ UNCHANGED <<assessments_db, profiles_db>>
          ELSE /\ profiles_db' = [profiles_db EXCEPT ![candidate_id] = profile]
               /\ assessments_db' = [assessments_db EXCEPT
                     ![assessment_id].status = "Completed"]
               /\ last' = AnalyzeReturn("SummaryResponse", assessments_db',
                                         assessment_id, profile)
    /\ UNCHANGED <<QUESTION_POOL, api_key, uuids, hist, completion, parse_out, analytics>>

\* the assessment ids a request may name: those generated and one unknown
AssessmentIds == 1..(uuids + 1)

Next ==
    \/ \E c \in CandidateChoices : StartAssessment(c)
    \/ \E a \in AssessmentIds, ans \in LastAnswers(QUESTION_POOL) : AdvanceAssessment(a, ans)
    \/ \E a \in AssessmentIds : TriggerAnalysis(a)
    \/ \E t \in 1..MaxTasks, r \in AnalysisResponses : AnalysisResponse(t, r)
    \/ \E t \in 1..MaxTasks : SummaryRequest(t)
    \/ \E t \in 1..MaxTasks, r \in SummaryResponses : SummaryResponse(t, r)

Spec == Init /\ [][Next]_vars

(***************************************************************************)
(* The parser on its own: the try block of analyze_responses_for_profile   *)
(* applied to one completion text drawn from ParseInputs.                  *)
(***************************************************************************)

\* the longest array among the inputs
MaxItems == 6

\* the trait names of the items: the required ones in the order of the
\* prompt, and one the prompt does not ask for
TraitOrder ==
    <<"Openness", "Conscientiousness", "Extraversion", "Agreeableness", "Neuroticism">>
TraitNames == required_traits \cup {"Creativity"}

\* the values of item["score"] tried: integers, floats (in tenths), numeric
\* and other strings, true, null, Infinity
Scores ==
    {ScoreVal("int", v) : v \in {-1, 0, 50, 100, 101, 150}}
    \cup {ScoreVal("float", v) : v \in {-10, -5, 855, 1000, 1005, 1010, 1500}}
    \cup {ScoreVal("numstr", v) : v \in {85, 150}}
    \cup {ScoreVal("bool", 1), ScoreVal("badstr", 0), ScoreVal("null", 0),
          ScoreVal("inf", 0)}

\* the i-th item of the array the prompt asks for
PromptItem(i) == GoodItem(TraitOrder[((i - 1) % 5) + 1], 50)
PromptItems(n) == [i \in 1..n |-> PromptItem(i)]

\* items that are not an object, or lack one of the keys
BrokenItems ==
    {Item(FALSE, {}, "Openness", ScoreVal("int", 50), "text")}
    \cup {Item(TRUE, ItemKeys \ {k}, "Openness", ScoreVal("int", 50), "text") :
            k \in ItemKeys}

\* the items tried at every position of a 5-item array at once
FewItems(i) ==
    {PromptItem(i),
     [PromptItem(i) EXCEPT !.score = ScoreVal("int", 150)],
     [PromptItem(i) EXCEPT !.score = ScoreVal("float", 1005)],
     [PromptItem(i) EXCEPT !.keys = ItemKeys \ {"insights"}],
     [PromptItem(i) EXCEPT !.trait = "Creativity"]}

\* the orders of five items
Permutations5 == {f \in [1..5 -> 1..5] : \A i, j \in 1..5 : f[i] = f[j] => i = j}

\* the arrays tried
ParseArrays ==
    \* arrays of 0..MaxItems well-formed items
    {PromptItems(n) : n \in 0..MaxItems}
    \* five well-formed items of different scores in every order
    \cup {[i \in 1..5 |-> GoodItemsA[f[i]]] : f \in Permutations5}
    \* the 5-item array in every rotation and reversed
    \cup {[i \in 1..5 |-> PromptItem(i + r)] : r \in 0..4}
    \cup {[i \in 1..5 |-> PromptItem(6 - i)]}
    \* one item with another score, another trait, an insights of null
    \cup {[PromptItems(5) EXCEPT ![p].score = sc] : p \in 1..5, sc \in Scores}
    \cup {[PromptItems(5) EXCEPT ![p].trait = t] : p \in 1..5, t \in TraitNames}
    \cup {[PromptItems(5) EXCEPT ![p].insights = "null"] : p \in 1..5}
    \* one broken item in an array of 1..MaxItems items
    \cup {[PromptItems(n) EXCEPT ![p] = b] :
            n \in 1..MaxItems, p \in 1..MaxItems, b \in BrokenItems}
    \* every combination of a few items over the five positions
    \cup {<<i1, i2, i3, i4, i5>> :
            i1 \in FewItems(1), i2 \in FewItems(2), i3 \in FewItems(3),
            i4 \in FewItems(4), i5 \in FewItems(5)}

\* the ways a JSON document d comes embedded in a completion text
Wrappings(d) ==
    {<<DocEl(d)>>,
     <<Ch("sp"), DocEl(d), Ch("sp")>>,
     FenceJson \o <<DocEl(d)>> \o Fence,
     <<Ch("sp")>> \o FenceJson \o <<Ch("sp"), DocEl(d), Ch("sp")>> \o Fence \o <<Ch("sp")>>,
     Fence \o <<Ch("sp"), DocEl(d), Ch("sp")>> \o Fence,
     FenceJson \o <<DocEl(d)>>,
     Fence \o <<DocEl(d)>>,
     FenceJson \o <<DocEl(d), Ch("x"), Ch("x"), Ch("x")>>,
     <<Ch("x"), DocEl(d)>>,
     <<DocEl(d), Ch("x")>>,
     <<DocEl(d), DocEl(d)>>}

ParseInputs ==
    {<<DocEl(ListDoc(a))>> : a \in ParseArrays}
    \cup UNION {Wrappings(ListDoc(PromptItems(n))) : n \in {4, 5}}
    \cup Wrappings(ListDoc([PromptItems(5) EXCEPT ![3].score = ScoreVal("int", 150)]))
    \cup Wrappings(ObjectDoc)
    \cup {<<>>, <<Ch("x")>>, <<Ch("sp")>>, FenceJson \o Fence, Fence}

InitParse ==
    /\ completion \in ParseInputs
    /\ parse_out = NotParsed
    /\ QUESTION_POOL = <<>>
    /\ api_key = TRUE
    /\ uuids = 0
    /\ assessments_db = <<>>
    /\ profiles_db = [c \in Candidates |-> NoProfile]
    /\ tasks = [t \in 1..MaxTasks |-> IdleTask]
    /\ hist = <<>>
    /\ last = Last("Init", 0, "none", 0, 0, NoProfile, 0)
    /\ analytics = NoQuery(0)

\* the try block runs on the completion (openrouter_service.py:273-340)
ParseStep ==
    /\ parse_out = NotParsed
    /\ parse_out' = ParseCompletion(completion)
    /\ UNCHANGED <<completion, QUESTION_POOL, api_key, uuids, assessments_db,
                   profiles_db, tasks, hist, last, analytics>>

NextParse == ParseStep

SpecParse == InitParse /\ [][NextParse]_vars

(***************************************************************************)
(* The analytics on their own: get_trends_logic and                        *)
(* compare_candidates_logic read a profile store that successive analyses  *)
(* have written (profiles_db[candidate_id] = profile).                     *)
(***************************************************************************)

\* the most profile writes of a scenario
MaxWrites == 3

\* the candidates analysed, and an id no profile is stored for
AnalyticsCandidates == {"c1", "c2", "c3"}
UnknownCandidate == "zz"

\* the trait scores of the profiles written: those of GoodItemsA, two other
\* score vectors, and one in another order
ScoreVectors == {<<80, 55, 0, 100, 40>>, <<40, 55, 100, 0, 41>>, <<41, 56, 1, 100, 40>>}
TraitScoresOf(v) == [i \in 1..5 |-> TraitScore(TraitOrder[i], v[i], "text")]
TraitScoresWritten ==
    {TraitScoresOf(v) : v \in ScoreVectors}
    \cup {[i \in 1..5 |-> TraitScoresOf(<<80, 55, 0, 100, 40>>)[6 - i]]}

\* sum(items): the total of a sequence of numbers
RECURSIVE SumSeq(_)
SumSeq(q) == IF q = <<>> THEN 0 ELSE q[1] + SumSeq(Tail(q))

\* round(total / count, 1) in tenths (assessment_logic.py:229-230): the
\* nearest tenth, a tie going to the even tenth. A tie needs a mean of the
\* form x.x5; with fewer than 20 profiles those are x.25 and x.75, which a
\* float holds exactly, so the float round and this one agree.
Round1Down(total, count) == (10 * total) \div count

Round1(total, count) ==
    LET q == (10 * total) \div count
        r == (10 * total) % count
    IN IF 2 * r < count THEN q
       ELSE IF 2 * r > count THEN q + 1
       ELSE IF q % 2 = 0 THEN q ELSE q + 1

\* the profiles of a store in some order (dict.values())
RECURSIVE ValuesOf(_, _)
ValuesOf(db, keys) ==
    IF keys = {} THEN <<>>
    ELSE LET k == CHOOSE x \in keys : TRUE
         IN IF db[k] = NoProfile THEN ValuesOf(db, keys \ {k})
            ELSE <<db[k]>> \o ValuesOf(db, keys \ {k})

\* the scores a sequence of profiles gives one trait
RECURSIVE ScoresOfTrait(_, _)
ScoresOfTrait(profiles, trait) ==
    IF profiles = <<>> THEN <<>>
    ELSE LET tr == profiles[1].traits
         IN [i \in 1..Cardinality({j \in DOMAIN tr : tr[j].trait = trait}) |->
               tr[CHOOSE j \in DOMAIN tr :
                    /\ tr[j].trait = trait
                    /\ Cardinality({h \in 1..j : tr[h].trait = trait}) = i].score]
            \o ScoresOfTrait(Tail(profiles), trait)

\* get_trends_logic (assessment_logic.py:212-240); averages are in tenths
get_trends_logic(db) ==
    LET profiles == ValuesOf(db, DOMAIN db)
        traits == UNION {{p.traits[i].trait : i \in DOMAIN p.traits} : p \in Range(profiles)}
    IN IF profiles = <<>>
       THEN [total_profiles_analyzed |-> 0, average_scores_per_trait |-> <<>>]
       ELSE [total_profiles_analyzed |-> Len(profiles),
             average_scores_per_trait |->
               [t \in traits |-> Round1(SumSeq(ScoresOfTrait(profiles, t)),
                                        Len(ScoresOfTrait(profiles, t)))]]

InitAnalytics ==
    /\ profiles_db = [c \in AnalyticsCandidates |-> NoProfile]
    /\ analytics = NoQuery(0)
    /\ completion = <<>>
    /\ parse_out = NotParsed
    /\ QUESTION_POOL = <<>>
    /\ api_key = TRUE
    /\ uuids = 0
    /\ assessments_db = <<>>
    /\ tasks = [t \in 1..MaxTasks |-> IdleTask]
    /\ hist = <<>>
    /\ last = Last("Init", 0, "none", 0, 0, NoProfile, 0)

\* an analysis completes and stores its profile (assessment_logic.py:128-134)
StoreProfile(candidate_id, trait_scores) ==
    /\ analytics.writes < MaxWrites
    /\ profiles_db' = [profiles_db EXCEPT ![candidate_id] =
                         PersonalityProfile(candidate_id, trait_scores, DefaultSummary)]
    /\ analytics' = NoQuery(analytics.writes + 1)
    /\ UNCHANGED <<completion, parse_out, QUESTION_POOL, api_key, uuids,
                   assessments_db, tasks, hist, last>>

\* GET /analytics/trends (routers/analytics.py:38-45)
Trends ==
    /\ analytics' = Analytics(analytics.writes, "Trends", <<>>, Traits(FALSE, <<>>),
                              get_trends_logic(profiles_db))
    /\ UNCHANGED <<profiles_db, completion, parse_out, QUESTION_POOL, api_key, uuids,
                   assessments_db, tasks, hist, last>>

\* profiles_db.get(candidate_id)
Get(db, candidate_id) ==
    IF candidate_id \in DOMAIN db THEN db[candidate_id] ELSE NoProfile

\* the filter `not traits or ts.trait in traits` (assessment_logic.py:200)
ShowTraitListed(traits, trait) == trait \in Range(traits.list)

ShowTrait(traits, trait) ==
    ~traits.given \/ traits.list = <<>> \/ trait \in Range(traits.list)

\* the value of one candidate in comparison_data (assessment_logic.py:196-207);
\* in the dict of scores a trait keeps the score of its last item
NullEntry == [null |-> TRUE, summary |-> <<>>, scores |-> <<>>]
Entry(profile, traits) ==
    IF profile = NoProfile THEN NullEntry
    ELSE [null |-> FALSE,
          summary |-> profile.summary,
          scores |->
            [t \in {profile.traits[i].trait :
                      i \in {j \in DOMAIN profile.traits :
                               ShowTrait(traits, profile.traits[j].trait)}} |->
               LET at == {i \in DOMAIN profile.traits : profile.traits[i].trait = t}
               IN profile.traits[CHOOSE i \in at : \A j \in at : j <= i].score]]

\* compare_candidates_logic (assessment_logic.py:190-209)
compare_candidates_logic(db, candidate_ids, traits) ==
    [comparison |-> [c \in Range(candidate_ids) |-> Entry(Get(db, c), traits)]]

\* the requests tried: lists of up to two ids, one with an id twice, and
\* the trait lists absent, empty, of one or two traits, of an unknown trait
CompareIds ==
    UNION {[1..n -> AnalyticsCandidates \cup {UnknownCandidate}] : n \in 0..2}
    \cup {<<"c1", "c2", "c1">>}
CompareTraits ==
    {Traits(FALSE, <<>>), Traits(TRUE, <<>>), Traits(TRUE, <<"Openness">>),
     Traits(TRUE, <<"Neuroticism", "Openness">>), Traits(TRUE, <<"Creativity">>),
     Traits(TRUE, <<"Creativity", "Extraversion", "Extraversion">>)}

\* POST /analytics/compare (routers/analytics.py:26-35)
Compare(candidate_ids, traits) ==
    /\ analytics' = Analytics(analytics.writes, "Compare", candidate_ids, traits,
                              compare_candidates_logic(profiles_db, candidate_ids, traits))
    /\ UNCHANGED <<profiles_db, completion, parse_out, QUESTION_POOL, api_key, uuids,
                   assessments_db, tasks, hist, last>>

NextAnalytics ==
    \/ \E c \in AnalyticsCandidates, ts \in TraitScoresWritten : StoreProfile(c, ts)
    \/ Trends
    \/ \E ids \in CompareIds, tr \in CompareTraits : Compare(ids, tr)

SpecAnalytics == InitAnalytics /\ [][NextAnalytics]_vars

(***************************************************************************)
(* The reads of the stores: get_candidate_profile and                      *)
(* get_all_candidate_summaries, made at any point of the state machine.    *)
(***************************************************************************)

\* a read just made: what it was asked and what it returned
LastRead(op, candidate_id, outcome, http, profile, summaries) ==
    [Last(op, 0, outcome, http, 0, profile, 0) EXCEPT
        !.candidate_id = candidate_id, !.summaries = summaries]

\* get_candidate_profile (assessment_logic.py:144-150) and the router's
\* get_profile (routers/candidate.py:11-19)
GetProfile(candidate_id) ==
    /\ LET profile == Get(profiles_db, candidate_id) IN
       last' = IF profile = NoProfile
               THEN LastRead("GetProfile", candidate_id, "NotFound", 404, NoProfile, <<>>)
               ELSE LastRead("GetProfile", candidate_id, "profile", 200, profile, <<>>)
    /\ UNCHANGED <<QUESTION_POOL, api_key, uuids, assessments_db, profiles_db, tasks, hist,
                   completion, parse_out, analytics>>

\* profile.summary if profile else None
NoSummary == <<"None">>

\* one entry of the list of summaries (assessment_logic.py:163-170, 177-183);
\* assessment id 0 stands for None
SummaryData(candidate_id, assessment_id, assessment_status, profile) ==
    [candidate_id |-> candidate_id,
     assessment_id |-> assessment_id,
     assessment_status |-> assessment_status,
     profile_available |-> profile # NoProfile,
     summary_text |-> IF profile # NoProfile THEN profile.summary ELSE NoSummary]

\* assessments_db.items(): the ids in the order of their insertion
RECURSIVE Items(_)
Items(ids) ==
    IF ids = {} THEN <<>>
    ELSE LET first == CHOOSE a \in ids : \A b \in ids : a <= b
         IN <<first>> \o Items(ids \ {first})

\* the loop over the assessments (assessment_logic.py:157-172)
RECURSIVE AssessmentsLoopNoSkip(_, _, _, _, _)
AssessmentsLoopNoSkip(db, pdb, items, processed_candidates, summaries) ==
    IF items = <<>>
    THEN [summaries |-> summaries, processed_candidates |-> processed_candidates]
    ELSE LET assessment_id == Head(items)
             data == db[assessment_id]
             candidate_id == data.candidate_id
         IN AssessmentsLoopNoSkip(db, pdb, Tail(items),
               processed_candidates \cup {candidate_id},
               Append(summaries,
                      SummaryData(candidate_id, assessment_id, data.status,
                                  Get(pdb, candidate_id))))

RECURSIVE AssessmentsLoop(_, _, _, _, _)
AssessmentsLoop(db, pdb, items, processed_candidates, summaries) ==
    IF items = <<>>
    THEN [summaries |-> summaries, processed_candidates |-> processed_candidates]
    ELSE LET assessment_id == Head(items)
             data == db[assessment_id]
             candidate_id == data.candidate_id
         IN IF candidate_id \in processed_candidates
            THEN AssessmentsLoop(db, pdb, Tail(items), processed_candidates, summaries)
            ELSE AssessmentsLoop(db, pdb, Tail(items),
                    processed_candidates \cup {candidate_id},
                    Append(summaries,
                           SummaryData(candidate_id, assessment_id, data.status,
                                       Get(pdb, candidate_id))))

\* the candidates of the second loop (assessment_logic.py:175-176): a profile
\* and no assessment
ProfileOnlyUnfiltered(pdb, processed_candidates) ==
    {c \in DOMAIN pdb : pdb[c] # NoProfile}

ProfileOnly(pdb, processed_candidates) ==
    {c \in DOMAIN pdb : pdb[c] # NoProfile /\ c \notin processed_candidates}

\* the orders profiles_db.items() may list a set of candidates in: the order
\* of the first write of each, which the profile store of the model does not
\* keep
Orders(cs) ==
    {o \in [1..Cardinality(cs) -> cs] : \A i, j \in DOMAIN o : o[i] = o[j] => i = j}

\* get_all_candidate_summaries (assessment_logic.py:152-187): the lists it
\* may return
get_all_candidate_summaries(db, pdb) ==
    LET loop == AssessmentsLoop(db, pdb, Items(DOMAIN db), {}, <<>>) IN
    {loop.summaries \o
       [i \in DOMAIN o |->
          SummaryData(o[i], 0, "Completed (Assessment data missing)", pdb[o[i]])] :
     o \in Orders(ProfileOnly(pdb, loop.processed_candidates))}

\* the router's get_candidate_list_summary (routers/analytics.py:15-22): last
\* records the list the service returns to it, before FastAPI narrows each
\* entry to the fields of CandidateSummary (models.py:51-54)
ListSummaries ==
    /\ \E summaries \in get_all_candidate_summaries(assessments_db, profiles_db) :
         last' = LastRead("ListSummaries", "", "summaries", 200, NoProfile, summaries)
    /\ UNCHANGED <<QUESTION_POOL, api_key, uuids, assessments_db, profiles_db, tasks, hist,
                   completion, parse_out, analytics>>

\* the candidate ids a read may name
ReadCandidates == Candidates \cup {UnknownCandidate}

NextReads ==
    \/ Next
    \/ \E c \in ReadCandidates : GetProfile(c)
    \/ ListSummaries

SpecReads == Init /\ [][NextReads]_vars

\* ------------------------------------------------------------------------
\* Part 3: the properties
\* ------------------------------------------------------------------------

FailedStatuses == {"Analysis Failed (No Answers)", "Analysis Failed (LLM Error)"}

NoDuplicates(s) == \A i, j \in DOMAIN s : i # j => s[i] # s[j]

\* C1: in every reachable state, every assessment's asked_question_ids holds
\* no id twice and is no longer than the question pool.
C1_AskedIdsDistinctAndBounded ==
    \A a \in DOMAIN assessments_db :
        /\ NoDuplicates(assessments_db[a].asked_question_ids)
        /\ Len(assessments_db[a].asked_question_ids) <= Len(QUESTION_POOL)

\* an assessment that was asked the whole pool of two or more questions and
\* went through analysis
C1_Witness ==
    \E a \in DOMAIN assessments_db :
        /\ Len(QUESTION_POOL) >= 2
        /\ Len(assessments_db[a].asked_question_ids) = Len(QUESTION_POOL)
        /\ assessments_db[a].status = "Completed"

\* C2: with a pool of N >= 1 distinct ids and an assessment TriggerAnalysis was
\* never called on, after k Advance calls: if k < N the assessment is In
\* Progress with k + 1 questions asked and the k-th call returned a question
\* not asked before; if k >= N the status is Pending Analysis, N questions
\* were asked and the call returned the end signal (null).
C2_AdvanceCountsToEnd ==
    \A a \in DOMAIN assessments_db :
        LET N == Len(QUESTION_POOL)
            k == hist[a].advances
            asked == assessments_db[a].asked_question_ids
            returned == last.op = "AdvanceAssessment" /\ last.assessment_id = a /\ k >= 1
        IN (N >= 1 /\ NoDuplicates(QUESTION_POOL) /\ ~hist[a].analyzed) =>
           IF k < N
           THEN /\ assessments_db[a].status = "In Progress"
                /\ Len(asked) = k + 1
                /\ returned =>
                     /\ last.outcome = "question"
                     /\ last.question = asked[k + 1]
                     /\ last.question \in Range(QUESTION_POOL)
                     /\ \A i \in 1..k : asked[i] # last.question
           ELSE /\ assessments_db[a].status = "Pending Analysis"
                /\ Len(asked) = N
                /\ returned => last.outcome = "null"

\* the N-th Advance call on a pool of N >= 2 distinct ids has just returned
C2_Witness ==
    \E a \in DOMAIN assessments_db :
        /\ Len(QUESTION_POOL) >= 2
        /\ NoDuplicates(QUESTION_POOL)
        /\ ~hist[a].analyzed
        /\ hist[a].advances = Len(QUESTION_POOL)
        /\ last.op = "AdvanceAssessment"
        /\ last.assessment_id = a
        /\ last.outcome = "null"
        /\ assessments_db[a].status = "Pending Analysis"

\* C3: an Advance call on an In Progress assessment with an answer whose
\* question_id is not the id of the last issued question leaves the answers as
\* they were, returns 200, and issues the next question or ends the assessment
\* exactly as the call without an answer does.
C3_MismatchedAnswerDropped ==
    [][\A a \in DOMAIN assessments_db, ans \in LastAnswers(QUESTION_POOL) :
         LET d == assessments_db[a]
             asked == d.asked_question_ids
         IN (/\ d.status = "In Progress"
             /\ ans # <<>>
             /\ ans[1].question_id # d.questions[Len(d.questions)].id
             /\ AdvanceAssessment(a, ans))
            => /\ assessments_db'[a].answers = d.answers
               /\ last'.http = 200
               /\ IF ReachedMax(QUESTION_POOL, asked) \/ Available(QUESTION_POOL, asked) = {}
                  THEN /\ last'.outcome = "null"
                       /\ assessments_db'[a] = [d EXCEPT !.status = "Pending Analysis"]
                  ELSE /\ last'.outcome = "question"
                       /\ last'.question \in Available(QUESTION_POOL, asked)
                       /\ assessments_db'[a] =
                            [d EXCEPT !.questions = Append(@, Question(last'.question)),
                                      !.asked_question_ids = Append(@, last'.question)]
      ]_vars

\* an Advance call has just dropped a non-matching answer of an assessment
\* that holds an answer, and returned the next question
C3_Witness ==
    /\ last.op = "AdvanceAssessment"
    /\ last.answer_ignored
    /\ last.outcome = "question"
    /\ last.assessment_id \in DOMAIN assessments_db
    /\ Len(assessments_db[last.assessment_id].answers) = 1

\* all ids of the pool are among the asked ids of assessment a
AllAsked(a) ==
    Range(QUESTION_POOL) \subseteq Range(assessments_db[a].asked_question_ids)

\* C4: an Advance call on an In Progress assessment whose questions were all
\* asked returns the end signal (null) and sets status Pending Analysis; the
\* same call in the resulting Pending Analysis state returns the end signal
\* again and leaves the status Pending Analysis.
C4_EndIsIdempotent ==
    [][\A a \in DOMAIN assessments_db, ans \in LastAnswers(QUESTION_POOL) :
         (/\ AllAsked(a)
          /\ assessments_db[a].status \in {"In Progress", "Pending Analysis"}
          /\ AdvanceAssessment(a, ans))
         => /\ last'.outcome = "null"
            /\ last'.http = 200
            /\ assessments_db'[a].status = "Pending Analysis"
            /\ assessments_db[a].status = "Pending Analysis" => UNCHANGED assessments_db
      ]_vars

\* the end signal was returned a second time: one Advance call more than the
\* pool has questions
C4_Witness ==
    \E a \in DOMAIN assessments_db :
        /\ ~hist[a].analyzed
        /\ hist[a].advances = Len(QUESTION_POOL) + 1
        /\ last.op = "AdvanceAssessment"
        /\ last.assessment_id = a
        /\ last.outcome = "null"
        /\ assessments_db[a].status = "Pending Analysis"

\* C5: a TriggerAnalysis call on an assessment without answers, whatever its
\* status, fails with NoAnswers (HTTP 400), leaves the status Analysis Failed
\* (No Answers), and sends no gateway request.
C5_NoAnswersNeverCallsGateway ==
    [][\A a \in DOMAIN assessments_db :
         (assessments_db[a].answers = <<>> /\ TriggerAnalysis(a))
         => /\ last'.outcome = "NoAnswers"
            /\ last'.http = 400
            /\ assessments_db'[a].status = "Analysis Failed (No Answers)"
            /\ last'.gateway = 0
            /\ UNCHANGED tasks
      ]_vars

\* TriggerAnalysis has just failed with NoAnswers although the API key is set
C5_Witness ==
    /\ api_key
    /\ last.op = "TriggerAnalysis"
    /\ last.outcome = "NoAnswers"
    /\ last.assessment_id \in DOMAIN assessments_db
    /\ assessments_db[last.assessment_id].answers = <<>>

\* C6: a TriggerAnalysis call on a Completed assessment returns the profile
\* the profile store holds for its candidate, sends no gateway request, and
\* changes neither the assessment store nor the profile store.
C6_CompletedIsIdempotentRead ==
    [][\A a \in DOMAIN assessments_db :
         (assessments_db[a].status = "Completed" /\ TriggerAnalysis(a))
         => /\ last'.outcome = "profile"
            /\ last'.http = 200
            /\ last'.profile = profiles_db[assessments_db[a].candidate_id]
            /\ last'.profile # NoProfile
            /\ last'.gateway = 0
            /\ UNCHANGED <<assessments_db, profiles_db, tasks>>
      ]_vars

\* TriggerAnalysis has just returned a stored profile
C6_Witness ==
    /\ last.op = "TriggerAnalysis"
    /\ last.outcome = "profile"
    /\ last.assessment_id \in DOMAIN assessments_db
    /\ assessments_db[last.assessment_id].status = "Completed"

\* C7 as stated: a TriggerAnalysis call on an assessment in an Analysis Failed
\* status that has answers (the API key being set) re-enters the pipeline: it
\* sends the gateway request again.
C7_RetryReentersPipeline ==
    [][\A a \in DOMAIN assessments_db :
         (/\ assessments_db[a].status \in FailedStatuses
          /\ assessments_db[a].answers # <<>>
          /\ api_key
          /\ TriggerAnalysis(a))
         => last'.gateway = 1 /\ last'.outcome = "pending"
      ]_vars

\* C7: a TriggerAnalysis call on an assessment in an Analysis Failed status
\* does not re-enter the pipeline: it sends no gateway request, starts no
\* analysis, changes neither store, and fails again with the failure the
\* status records (NoAnswers 400, LLMError 503).
C7_RetryIsRefused ==
    [][\A a \in DOMAIN assessments_db :
         (assessments_db[a].status \in FailedStatuses /\ TriggerAnalysis(a))
         => /\ last'.gateway = 0
            /\ UNCHANGED <<assessments_db, profiles_db, tasks>>
            /\ last'.outcome =
                 IF assessments_db[a].status = "Analysis Failed (No Answers)"
                 THEN "NoAnswers" ELSE "LLMError"
            /\ last'.http =
                 IF assessments_db[a].status = "Analysis Failed (No Answers)"
                 THEN 400 ELSE 503
      ]_vars

\* with the API key set, TriggerAnalysis has just answered LLMError for an
\* assessment that has answers: a retry after a failed analysis
C7_Witness ==
    /\ api_key
    /\ last.op = "TriggerAnalysis"
    /\ last.outcome = "LLMError"
    /\ last.assessment_id \in DOMAIN assessments_db
    /\ assessments_db[last.assessment_id].answers # <<>>
    /\ assessments_db[last.assessment_id].status = "Analysis Failed (LLM Error)"

\* C8 as stated: when an analysis has just ended on a failure of the first
\* gateway call, of the parsing of its completion, or of the summary call, the
\* assessment is in an Analysis Failed status.
C8_FailureLeavesFailedStatus ==
    (/\ last.op \in {"TriggerAnalysis", "AnalysisResponse", "SummaryResponse"}
     /\ last.outcome \in {"LLMError", "NoAnswers", "Failed", "Exception"}
     /\ last.assessment_id \in DOMAIN assessments_db)
    => assessments_db[last.assessment_id].status \in FailedStatuses

\* five trait scores, one for each required trait, each an integer in 0..100
WellFormedProfile(profile) ==
    /\ Len(profile.traits) = 5
    /\ {profile.traits[i].trait : i \in DOMAIN profile.traits} = required_traits
    /\ \A i \in DOMAIN profile.traits : profile.traits[i].score \in 0..100

\* C9: every profile in the profile store, and every profile a call returns,
\* has exactly five trait scores, one for each required trait, each score an
\* integer in 0..100.
C9_ProfilesAreComplete ==
    /\ \A c \in Candidates :
         profiles_db[c] # NoProfile => WellFormedProfile(profiles_db[c])
    /\ last.profile # NoProfile => WellFormedProfile(last.profile)

\* a profile was stored by the analysis that has just completed
C9_Witness ==
    /\ last.op = "SummaryResponse"
    /\ last.outcome = "profile"
    /\ \E c \in Candidates : profiles_db[c] = last.profile

\* what json.loads returns on the completion once the fences are cleaned
Decoded == JsonLoads(CleanFence(completion))

\* the completion is not parseable JSON
NotJson == Decoded.err # "none"

\* the top-level value is not an array of exactly 5 items
NotArrayOf5 ==
    Decoded.err = "none" /\ ~(Decoded.value.kind = "list" /\ Len(Decoded.value.items) = 5)

\* the value is an array with an object that lacks one of the three keys
ItemLacksKey ==
    /\ Decoded.err = "none"
    /\ Decoded.value.kind = "list"
    /\ \E i \in DOMAIN Decoded.value.items :
         Decoded.value.items[i].isdict /\ ~(ItemKeys \subseteq Decoded.value.items[i].keys)

\* an item valid but for its score: an object with the three keys and a
\* required trait
OtherwiseValid(item) ==
    item.isdict /\ ItemKeys \subseteq item.keys /\ item.trait \in required_traits

\* a number outside [0,100] (floats are held in tenths)
ScoreOutsideRange(sc) ==
    \/ sc.k = "int" /\ (sc.v < 0 \/ sc.v > 100)
    \/ sc.k = "float" /\ (sc.v < 0 \/ sc.v > 1000)

\* a score that int() refuses, or turns into an integer outside 0..100:
\* int() truncates toward zero, so the floats strictly between -1 and 0 and
\* between 100 and 101 come out as 0 and 100
ScoreCoercesOutside(sc) ==
    \/ sc.k \in {"int", "numstr"} /\ (sc.v < 0 \/ sc.v > 100)
    \/ sc.k = "float" /\ (sc.v <= -10 \/ sc.v >= 1010)
    \/ sc.k \in {"badstr", "null", "inf"}

\* C10 as stated: the parser returns no trait scores for a completion that is
\* not parseable JSON, for a value that is not an array of 5 items, for an
\* array with an item lacking a key, and for a 5-item array with an otherwise
\* valid item whose score is outside [0,100].
C10_RejectsOutOfRangeScores ==
    (/\ parse_out # NotParsed
     /\ \/ NotJson
        \/ NotArrayOf5
        \/ ItemLacksKey
        \/ /\ ~NotJson /\ ~NotArrayOf5
           /\ \E i \in 1..5 :
                /\ OtherwiseValid(Decoded.value.items[i])
                /\ ScoreOutsideRange(Decoded.value.items[i].score))
    => ~parse_out.ok /\ parse_out.trait_scores = <<>>

\* C10: the parser returns no trait scores for a completion that (after the
\* fences are cleaned) is not parseable JSON, for a value that is not an array
\* of 5 items, for an array with an item lacking a key, and for a 5-item array
\* with an otherwise valid item whose score int() refuses or truncates to an
\* integer outside 0..100.
C10_RejectsUncoercibleScores ==
    (/\ parse_out # NotParsed
     /\ \/ NotJson
        \/ NotArrayOf5
        \/ ItemLacksKey
        \/ /\ ~NotJson /\ ~NotArrayOf5
           /\ \E i \in 1..5 :
                /\ OtherwiseValid(Decoded.value.items[i])
                /\ ScoreCoercesOutside(Decoded.value.items[i].score))
    => ~parse_out.ok /\ parse_out.trait_scores = <<>>

\* the parser has refused a 5-item array whose only flaw is one score of 101.0
C10_Witness ==
    /\ parse_out # NotParsed
    /\ ~parse_out.ok
    /\ parse_out.why = "IncompleteAnalysis"
    /\ ~NotJson /\ ~NotArrayOf5 /\ ~ItemLacksKey
    /\ \E i \in 1..5 :
         /\ Decoded.value.items[i].score = ScoreVal("float", 1010)
         /\ \A j \in 1..5 :
              /\ OtherwiseValid(Decoded.value.items[j])
              /\ j # i => Decoded.value.items[j].score = ScoreVal("int", 50)

\* the completion is a 5-item array whose items carry the five required
\* trait names, integer scores in 0..100 and string insights
FiveGoodItems ==
    /\ ~NotJson /\ ~NotArrayOf5
    /\ {Decoded.value.items[i].trait : i \in 1..5} = required_traits
    /\ \A i \in 1..5 :
         /\ OtherwiseValid(Decoded.value.items[i])
         /\ Decoded.value.items[i].score.k = "int"
         /\ Decoded.value.items[i].score.v \in 0..100
         /\ Decoded.value.items[i].insights # "null"

\* C11: the parser accepts every 5-item array of the five required traits with
\* integer scores in 0..100 and string insights, in whatever order the items
\* come, and returns for the i-th item the i-th trait score with that item's
\* trait, score and insights: the pairs returned do not depend on the order
\* and the sequence keeps the input order.
C11_AcceptsEveryOrder ==
    (parse_out # NotParsed /\ FiveGoodItems)
    => /\ parse_out.ok
       /\ Len(parse_out.trait_scores) = 5
       /\ \A i \in 1..5 :
            parse_out.trait_scores[i] =
              [trait |-> Decoded.value.items[i].trait,
               score |-> Decoded.value.items[i].score.v,
               insights |-> Decoded.value.items[i].insights]

\* the parser has accepted an array that begins with the last trait of the
\* prompt and holds the scores 0 and 100
C11_Witness ==
    /\ parse_out # NotParsed
    /\ FiveGoodItems
    /\ parse_out.ok
    /\ Decoded.value.items[1].trait = "Neuroticism"
    /\ Decoded.value.items[2].trait = "Openness"
    /\ {0, 100} \subseteq {parse_out.trait_scores[i].score : i \in 1..5}

\* C12 as stated: a StartAssessment call on an empty pool fails with EmptyPool,
\* issues no question, generates an assessment id, and allocates under that id
\* a record that carries no question.
C12_EmptyPoolAllocatesRecord ==
    [][\A c \in Candidates :
         (QUESTION_POOL = <<>> /\ StartAssessment(c))
         => /\ last'.outcome = "EmptyPool"
            /\ last'.question = 0
            /\ uuids' = uuids + 1
            /\ last'.assessment_id = uuids'
            /\ uuids' \in DOMAIN assessments_db'
            /\ assessments_db'[uuids'].questions = <<>>
      ]_vars

\* C12: a StartAssessment call on an empty pool fails with EmptyPool (HTTP
\* 500) and issues no question; an assessment id is generated, but no record
\* is stored under it: the assessment store is left as it was.
C12_EmptyPoolStoresNothing ==
    [][\A c \in Candidates :
         (QUESTION_POOL = <<>> /\ StartAssessment(c))
         => /\ last'.outcome = "EmptyPool"
            /\ last'.http = 500
            /\ last'.question = 0
            /\ uuids' = uuids + 1
            /\ last'.assessment_id = uuids'
            /\ uuids' \notin DOMAIN assessments_db'
            /\ UNCHANGED <<assessments_db, profiles_db, tasks>>
      ]_vars

\* a second StartAssessment call on the empty pool has just failed
C12_Witness ==
    /\ QUESTION_POOL = <<>>
    /\ last.op = "StartAssessment"
    /\ last.outcome = "EmptyPool"
    /\ uuids = 2
    /\ last.assessment_id = 2
    /\ assessments_db = <<>>

\* C13 as stated: an Advance call with an id no assessment has fails with
\* NotFound, and one on an assessment that is not In Progress fails with
\* InvalidState; the caller is told of a failure, which is not the end signal
\* (null with HTTP 200), the answer is not stored and no store changes.
C13_AdvanceReportsFailures ==
    [][\A a \in AssessmentIds, ans \in LastAnswers(QUESTION_POOL) :
         (/\ a \notin DOMAIN assessments_db \/ assessments_db[a].status # "In Progress"
          /\ AdvanceAssessment(a, ans))
         => /\ last'.outcome =
                 IF a \notin DOMAIN assessments_db THEN "NotFound" ELSE "InvalidState"
            /\ last'.http # 200
            /\ UNCHANGED <<assessments_db, profiles_db, tasks>>
      ]_vars

\* C14 as stated: no two TriggerAnalysis calls on the same assessment have
\* both passed the status check and sent the trait-analysis request: the
\* analyses suspended at an await are on different assessments.
C14_OneAnalysisPerAssessment ==
    \A t, u \in InFlight :
        t # u => tasks[t].assessment_id # tasks[u].assessment_id

\* C15: a StartAssessment call, and an AdvanceAssessment or TriggerAnalysis
\* call addressed to an assessment other than b (every step of the analysis
\* it starts included), leaves the record of assessment b as it was; and an
\* AdvanceAssessment call leaves the profile store as it was. Stated from
\* the change: a step that changes the record of b is none of those calls,
\* and a step that changes the profile store is no AdvanceAssessment call.
C15_OtherAssessmentsUntouched ==
    [][/\ \A b \in DOMAIN assessments_db :
            (b \notin DOMAIN assessments_db' \/ assessments_db'[b] # assessments_db[b])
            => ~(\/ \E c \in Candidates : StartAssessment(c)
                 \/ \E a \in AssessmentIds \ {b}, ans \in LastAnswers(QUESTION_POOL) :
                        AdvanceAssessment(a, ans)
                 \/ \E a \in AssessmentIds \ {b} : TriggerAnalysis(a)
                 \/ \E t \in 1..MaxTasks :
                        /\ tasks[t].assessment_id # b
                        /\ \/ \E r \in AnalysisResponses : AnalysisResponse(t, r)
                           \/ SummaryRequest(t)
                           \/ \E r \in SummaryResponses : SummaryResponse(t, r))
       /\ profiles_db' # profiles_db
          => ~(\E a \in AssessmentIds, ans \in LastAnswers(QUESTION_POOL) :
                  AdvanceAssessment(a, ans))
      ]_vars

\* the analysis of the second assessment of a candidate has just completed
\* while the first assessment of the same candidate is still In Progress
C15_Witness ==
    /\ DOMAIN assessments_db = {1, 2}
    /\ assessments_db[1].candidate_id = assessments_db[2].candidate_id
    /\ last.op = "SummaryResponse"
    /\ last.assessment_id = 2
    /\ assessments_db[2].status = "Completed"
    /\ assessments_db[1].status = "In Progress"

\* the candidates the profile store holds a profile for
Stored == {c \in DOMAIN profiles_db : profiles_db[c] # NoProfile}

\* the score a complete profile gives a trait
ScoreIn(profile, trait) ==
    profile.traits[CHOOSE i \in DOMAIN profile.traits : profile.traits[i].trait = trait].score

\* the total of a trait's scores over the stored profiles of the candidates cs
RECURSIVE TraitSum(_, _)
TraitSum(cs, trait) ==
    IF cs = {} THEN 0
    ELSE LET c == CHOOSE x \in cs : TRUE
         IN ScoreIn(profiles_db[c], trait) + TraitSum(cs \ {c}, trait)

\* C16: Trends on an empty profile store returns total_profiles_analyzed = 0
\* and an empty mapping; otherwise the total is the number of candidates with
\* a stored profile (which the number of profiles written can exceed), and
\* each required trait's value is the mean of its scores over the stored
\* profiles rounded to one decimal: it is a number of tenths no further than
\* half a tenth from the mean. The scores 80 and 40 give 60.0.
C16_TrendsAreRoundedMeans ==
    analytics.op = "Trends" =>
        LET n == Cardinality(Stored)
            avg == analytics.out.average_scores_per_trait
        IN /\ analytics.out.total_profiles_analyzed = n
           /\ n <= analytics.writes
           /\ n = 0 => avg = <<>>
           /\ n > 0 =>
                /\ DOMAIN avg = required_traits
                /\ \A t \in required_traits :
                     /\ 2 * (avg[t] * n - 10 * TraitSum(Stored, t)) <= n
                     /\ 2 * (10 * TraitSum(Stored, t) - avg[t] * n) <= n
           /\ (n = 2 /\ {ScoreIn(profiles_db[c], "Openness") : c \in Stored} = {80, 40})
              => avg["Openness"] = 600

\* Trends has just answered 60.0 for Openness over two stored profiles of
\* scores 80 and 40, three profiles having been written
C16_Witness ==
    /\ analytics.op = "Trends"
    /\ analytics.writes = 3
    /\ Cardinality(Stored) = 2
    /\ {ScoreIn(profiles_db[c], "Openness") : c \in Stored} = {80, 40}
    /\ analytics.out.total_profiles_analyzed = 2
    /\ analytics.out.average_scores_per_trait["Openness"] = 600

\* C17: Compare returns a mapping whose keys are the distinct requested ids;
\* a candidate without a stored profile maps to null; a candidate with one
\* maps to the profile's summary and the scores of exactly the requested
\* traits the profile has -- of all five traits when the trait list is absent
\* or empty.
C17_CompareShowsRequestedTraits ==
    analytics.op = "Compare" =>
        LET cmp == analytics.out.comparison
            wanted == IF ~analytics.traits.given \/ analytics.traits.list = <<>>
                      THEN required_traits
                      ELSE required_traits \cap Range(analytics.traits.list)
        IN /\ DOMAIN cmp = Range(analytics.candidate_ids)
           /\ \A c \in DOMAIN cmp :
                IF c \notin Stored
                THEN cmp[c] = NullEntry
                ELSE /\ ~cmp[c].null
                     /\ cmp[c].summary = profiles_db[c].summary
                     /\ DOMAIN cmp[c].scores = wanted
                     /\ \A t \in wanted : cmp[c].scores[t] = ScoreIn(profiles_db[c], t)

\* Compare has just answered for c1, who has a profile, and c2, who has
\* none, with Openness the one trait requested
C17_Witness ==
    /\ analytics.op = "Compare"
    /\ analytics.candidate_ids = <<"c1", "c2">>
    /\ analytics.traits = Traits(TRUE, <<"Openness">>)
    /\ Stored = {"c1", "c3"}
    /\ analytics.out.comparison["c2"] = NullEntry
    /\ DOMAIN analytics.out.comparison["c1"].scores = {"Openness"}

\* C18: in every reachable state, every assessment has as many issued
\* questions as asked question ids, the i-th id being the id of the i-th
\* question, and at most as many stored answers as issued questions.
C18_QuestionsIdsAnswersAgree ==
    \A a \in DOMAIN assessments_db :
        /\ Len(assessments_db[a].questions) = Len(assessments_db[a].asked_question_ids)
        /\ \A i \in DOMAIN assessments_db[a].questions :
             assessments_db[a].questions[i].id = assessments_db[a].asked_question_ids[i]
        /\ Len(assessments_db[a].answers) <= Len(assessments_db[a].questions)

\* an assessment that ended with every one of its two or more questions
\* answered
C18_Witness ==
    \E a \in DOMAIN assessments_db :
        /\ Len(assessments_db[a].questions) >= 2
        /\ Len(assessments_db[a].answers) = Len(assessments_db[a].questions)
        /\ assessments_db[a].status = "Pending Analysis"

\* C19 as stated: whenever an assessment is In Progress, at least one
\* question was issued and strictly fewer distinct questions were asked than
\* the pool has.
C19_InProgressBelowPoolSize ==
    \A a \in DOMAIN assessments_db :
        assessments_db[a].status = "In Progress" =>
            /\ Len(assessments_db[a].questions) >= 1
            /\ Cardinality(Range(assessments_db[a].asked_question_ids)) < Len(QUESTION_POOL)

\* C19: whenever an assessment is In Progress, at least one question was
\* issued and at most as many distinct questions were asked as the pool has;
\* the two numbers are equal from the issue of the last question until the
\* next Advance call.
C19_InProgressWithinPoolSize ==
    \A a \in DOMAIN assessments_db :
        assessments_db[a].status = "In Progress" =>
            /\ Len(assessments_db[a].questions) >= 1
            /\ Len(assessments_db[a].asked_question_ids) >= 1
            /\ Cardinality(Range(assessments_db[a].asked_question_ids)) <= Len(QUESTION_POOL)

\* an assessment still In Progress with the whole pool of two questions
\* asked and the first question answered
C19_Witness ==
    \E a \in DOMAIN assessments_db :
        /\ assessments_db[a].status = "In Progress"
        /\ Len(QUESTION_POOL) = 2
        /\ Cardinality(Range(assessments_db[a].asked_question_ids)) = 2
        /\ Len(assessments_db[a].answers) = 1

\* C20: with no API credential, TriggerAnalysis on an assessment that has at
\* least one answer sends no Gateway request (none in the call, none left in
\* flight), stores no profile, and leaves the assessment in
\* Analysis Failed (LLM Error).
C20_NoCredentialNoGatewayCall ==
    [][\A a \in DOMAIN assessments_db :
          ( /\ ~api_key
            /\ assessments_db[a].answers # <<>>
            /\ TriggerAnalysis(a) )
          => /\ last'.gateway = 0
             /\ tasks' = tasks
             /\ \A t \in 1..MaxTasks : tasks'[t].pc = "idle"
             /\ profiles_db' = profiles_db
             /\ last'.profile = NoProfile
             /\ assessments_db'[a].status = "Analysis Failed (LLM Error)"]_vars

\* TriggerAnalysis has just refused an answered assessment for want of the
\* credential
C20_Witness ==
    /\ ~api_key
    /\ last.op = "TriggerAnalysis"
    /\ last.outcome = "LLMError"
    /\ last.assessment_id \in DOMAIN assessments_db
    /\ assessments_db[last.assessment_id].answers # <<>>
    /\ assessments_db[last.assessment_id].status = "Analysis Failed (LLM Error)"

\* C21 as stated: Completed is terminal: no step, of any operation in any
\* interleaving, changes the status of an assessment that is Completed.
C21_CompletedIsTerminal ==
    [][\A a \in DOMAIN assessments_db :
          assessments_db[a].status = "Completed"
          => assessments_db'[a].status = "Completed"]_vars

\* C22 as stated: the answers an assessment holds when an analysis marks it
\* Completed are exactly the answers that analysis sent to the Gateway, and
\* no AdvanceAssessment call changes the record of an assessment while an
\* analysis of it is suspended between its start and its final status write.
C22_AnalysisSeesFinalAnswers ==
    [][/\ \A t \in 1..MaxTasks, r \in SummaryResponses :
            (r.kind = "ok" /\ SummaryResponse(t, r))
            => assessments_db'[tasks[t].assessment_id].answers = tasks[t].sent
       /\ \A t \in InFlight :
            assessments_db'[tasks[t].assessment_id] # assessments_db[tasks[t].assessment_id]
            => ~(\E ans \in LastAnswers(QUESTION_POOL) :
                    AdvanceAssessment(tasks[t].assessment_id, ans))
      ]_vars

\* C23: one failed Gateway call fails the whole analysis, with no retry. When
\* the trait-analysis call fails, or the summary call fails, the invocation
\* ends there: it returns no profile, sends no further request, and leaves
\* the profile store as it was. An invocation goes on to the summary request
\* only with five parsed trait scores in hand, sends it as its second
\* request, and never sends a third.
C23_FailedCallFailsAnalysis ==
    [][/\ last'.op = "AnalysisResponse"
          => \A t \in 1..MaxTasks :
               tasks'[t] # tasks[t]
               => /\ tasks[t].calls = 1
                  /\ profiles_db' = profiles_db
                  /\ last'.gateway = 0
                  /\ last'.profile = NoProfile
                  /\ IF tasks'[t].pc = "await_sleep"
                     THEN /\ Len(tasks'[t].trait_scores) = 5
                          /\ ~(\E r \in AnalysisResponses :
                                  r.kind # "ok" /\ AnalysisResponse(t, r))
                     ELSE /\ tasks'[t] = IdleTask
                          /\ last'.outcome # "profile"
       /\ last'.op = "SummaryRequest"
          => \A t \in 1..MaxTasks :
               SummaryRequest(t)
               => /\ Len(tasks[t].trait_scores) = 5
                  /\ tasks[t].calls = 1
                  /\ tasks'[t].calls = 2
                  /\ profiles_db' = profiles_db
       /\ last'.op = "SummaryResponse"
          => \A t \in 1..MaxTasks, r \in SummaryResponses :
               SummaryResponse(t, r)
               => /\ tasks[t].calls = 2
                  /\ tasks'[t] = IdleTask
                  /\ last'.gateway = 0
                  /\ r.kind # "ok"
                     => /\ last'.profile = NoProfile
                        /\ last'.outcome # "profile"
                        /\ profiles_db' = profiles_db
      ]_vars

\* the summary call of a second analysis for a candidate has just failed,
\* and the profile of the candidate's first analysis is still stored
C23_Witness ==
    /\ last.op = "SummaryResponse"
    /\ last.outcome = "Exception"
    /\ last.assessment_id \in DOMAIN assessments_db
    /\ profiles_db[assessments_db[last.assessment_id].candidate_id] # NoProfile
    /\ assessments_db[last.assessment_id].status # "Completed"

\* C24 as stated: TriggerAnalysis fails with NotFound for an unknown
\* assessment id and with InvalidState for an assessment in an Analysis
\* Failed status; in both cases it sends no Gateway request and changes
\* neither store.
C24_FailedStatusIsInvalidState ==
    [][\A a \in AssessmentIds :
         (/\ a \in DOMAIN assessments_db => assessments_db[a].status \in FailedStatuses
          /\ TriggerAnalysis(a))
         => /\ last'.outcome = IF a \in DOMAIN assessments_db THEN "InvalidState"
                               ELSE "NotFound"
            /\ last'.gateway = 0
            /\ UNCHANGED <<assessments_db, profiles_db, tasks>>
      ]_vars

\* C24: TriggerAnalysis fails with NotFound (404) for an unknown assessment
\* id; for an assessment in an Analysis Failed status it fails with the
\* failure that status records, NoAnswers (400) or LLMError (503), and never
\* with InvalidState; in both cases it returns no profile, sends no Gateway
\* request, starts no analysis and changes neither store.
C24_UnknownOrFailedIsRefused ==
    [][\A a \in AssessmentIds :
         (/\ a \in DOMAIN assessments_db => assessments_db[a].status \in FailedStatuses
          /\ TriggerAnalysis(a))
         => /\ last'.outcome =
                 IF a \notin DOMAIN assessments_db THEN "NotFound"
                 ELSE IF assessments_db[a].status = "Analysis Failed (No Answers)"
                 THEN "NoAnswers" ELSE "LLMError"
            /\ last'.http =
                 IF a \notin DOMAIN assessments_db THEN 404
                 ELSE IF assessments_db[a].status = "Analysis Failed (No Answers)"
                 THEN 400 ELSE 503
            /\ last'.outcome # "InvalidState"
            /\ last'.profile = NoProfile
            /\ last'.gateway = 0
            /\ UNCHANGED <<assessments_db, profiles_db, tasks>>
      ]_vars

\* TriggerAnalysis has just answered NotFound for an unknown id, after it
\* refused an assessment that another call had left in each Analysis Failed
\* status
C24_Witness ==
    /\ last.op = "TriggerAnalysis"
    /\ last.outcome = "NotFound"
    /\ last.http = 404
    /\ last.assessment_id \notin DOMAIN assessments_db
    /\ \E a, b \in DOMAIN assessments_db :
         /\ assessments_db[a].status = "Analysis Failed (No Answers)"
         /\ assessments_db[b].status = "Analysis Failed (LLM Error)"

\* C25: TriggerAnalysis is accepted on an assessment that is still In
\* Progress and has an answer: it sends the trait-analysis request and leaves
\* the status In Progress. No step of an analysis writes Pending Analysis, so
\* the final write of a successful analysis takes an assessment it finds In
\* Progress straight to Completed. Every AdvanceAssessment on a Completed
\* assessment then returns no question and leaves the record as it is, the
\* questions of the pool that were not yet asked included.
C25_AnalysisFromInProgress ==
    [][/\ last'.op = "TriggerAnalysis"
          => \A a \in DOMAIN assessments_db :
               (/\ assessments_db[a].status = "In Progress"
                /\ assessments_db[a].answers # <<>>
                /\ api_key
                /\ TriggerAnalysis(a))
               => /\ last'.outcome = "pending"
                  /\ last'.gateway = 1
                  /\ \E t \in 1..MaxTasks :
                       /\ tasks[t].pc = "idle"
                       /\ tasks'[t].pc = "await_analysis"
                       /\ tasks'[t].assessment_id = a
                  /\ assessments_db'[a].status = "In Progress"
       /\ last'.op \in {"TriggerAnalysis", "AnalysisResponse", "SummaryRequest",
                        "SummaryResponse"}
          => \A a \in DOMAIN assessments_db :
               /\ assessments_db'[a].status = "Pending Analysis"
                  => assessments_db[a].status = "Pending Analysis"
               /\ (/\ last'.outcome = "profile"
                   /\ last'.assessment_id = a
                   /\ assessments_db[a].status = "In Progress")
                  => assessments_db'[a].status = "Completed"
       /\ last'.op = "AdvanceAssessment"
          => \A a \in DOMAIN assessments_db, ans \in LastAnswers(QUESTION_POOL) :
               (assessments_db[a].status = "Completed" /\ AdvanceAssessment(a, ans))
               => /\ last'.outcome = "null"
                  /\ last'.question = 0
                  /\ assessments_db' = assessments_db
      ]_vars

\* AdvanceAssessment has just returned no question for an assessment that an
\* analysis completed while a question of the pool was still not asked
C25_Witness ==
    /\ last.op = "AdvanceAssessment"
    /\ last.outcome = "null"
    /\ last.assessment_id \in DOMAIN assessments_db
    /\ assessments_db[last.assessment_id].status = "Completed"
    /\ Available(QUESTION_POOL, assessments_db[last.assessment_id].asked_question_ids) # {}

\* C26: the profile store holds one profile per candidate at most, the one
\* written by the analysis of any of the candidate's assessments that
\* succeeded last: only the final step of a successful analysis changes the
\* store, it replaces the profile of its candidate by its own and touches no
\* other. GetProfile of a candidate, and TriggerAnalysis on any Completed
\* assessment of the candidate, return the profile stored then, whichever
\* assessment's analysis wrote it.
C26_LatestProfilePerCandidate ==
    [][/\ profiles_db' # profiles_db
          => last'.op = "SummaryResponse" /\ last'.outcome = "profile"
       /\ (last'.op = "SummaryResponse" /\ last'.outcome = "profile")
          => LET c == assessments_db[last'.assessment_id].candidate_id IN
             /\ last'.profile.candidate_id = c
             /\ profiles_db'[c] = last'.profile
             /\ \A d \in Candidates \ {c} : profiles_db'[d] = profiles_db[d]
       /\ last'.op = "GetProfile"
          => \A c \in ReadCandidates :
               GetProfile(c)
               => /\ last'.profile = Get(profiles_db, c)
                  /\ last'.outcome = IF Get(profiles_db, c) = NoProfile
                                     THEN "NotFound" ELSE "profile"
       /\ last'.op = "TriggerAnalysis"
          => \A a \in DOMAIN assessments_db :
               (assessments_db[a].status = "Completed" /\ TriggerAnalysis(a))
               => /\ last'.outcome = "profile"
                  /\ last'.profile = profiles_db[assessments_db[a].candidate_id]
                  /\ last'.profile # NoProfile
      ]_vars

\* GetProfile has just returned the profile of a candidate with two
\* Completed assessments: one profile stands for both
C26_Witness ==
    /\ last.op = "GetProfile"
    /\ last.outcome = "profile"
    /\ last.profile = profiles_db[last.candidate_id]
    /\ \E a, b \in DOMAIN assessments_db :
         /\ a # b
         /\ assessments_db[a].candidate_id = last.candidate_id
         /\ assessments_db[b].candidate_id = last.candidate_id
         /\ assessments_db[a].status = "Completed"
         /\ assessments_db[b].status = "Completed"

\* C27: whenever an assessment is in Pending Analysis, every question id of
\* the pool is among its asked_question_ids; and a step that puts an
\* assessment into Pending Analysis is an AdvanceAssessment call on that
\* assessment, which it finds In Progress.
C27_PendingMeansPoolExhausted ==
    [][\A a \in DOMAIN assessments_db' :
          assessments_db'[a].status = "Pending Analysis"
          => /\ Range(QUESTION_POOL) \subseteq Range(assessments_db'[a].asked_question_ids)
             /\ \/ /\ a \in DOMAIN assessments_db
                   /\ assessments_db[a].status = "Pending Analysis"
                \/ /\ a \in DOMAIN assessments_db
                   /\ assessments_db[a].status = "In Progress"
                   /\ last'.op = "AdvanceAssessment"
                   /\ last'.assessment_id = a
                   /\ \E ans \in LastAnswers(QUESTION_POOL) : AdvanceAssessment(a, ans)
      ]_vars

\* AdvanceAssessment has just ended an assessment on a pool of two different
\* questions, both asked
C27_Witness ==
    /\ last.op = "AdvanceAssessment"
    /\ last.outcome = "null"
    /\ last.assessment_id \in DOMAIN assessments_db
    /\ assessments_db[last.assessment_id].status = "Pending Analysis"
    /\ Cardinality(Range(QUESTION_POOL)) = 2
    /\ Range(assessments_db[last.assessment_id].asked_question_ids) = {1, 2}

\* C28: an assessment that has left In Progress never is In Progress again,
\* and its questions, asked_question_ids and answers never change again:
\* every AdvanceAssessment call on it, with or without an answer, returns no
\* question and leaves the record as it is. An assessment in Analysis Failed
\* (No Answers) therefore has no answer, and never gets one.
C28_ClosedAssessmentIsFrozen ==
    [][\A a \in DOMAIN assessments_db :
          assessments_db[a].status # "In Progress"
          => /\ assessments_db'[a].status # "In Progress"
             /\ assessments_db'[a].questions = assessments_db[a].questions
             /\ assessments_db'[a].asked_question_ids = assessments_db[a].asked_question_ids
             /\ assessments_db'[a].answers = assessments_db[a].answers
             /\ assessments_db'[a].status = "Analysis Failed (No Answers)"
                => assessments_db'[a].answers = <<>>
             /\ (last'.op = "AdvanceAssessment" /\ last'.assessment_id = a)
                => \A ans \in LastAnswers(QUESTION_POOL) :
                     AdvanceAssessment(a, ans)
                     => /\ last'.outcome = "null"
                        /\ last'.question = 0
                        /\ assessments_db' = assessments_db
      ]_vars

\* AdvanceAssessment has just returned no question for an assessment in
\* Analysis Failed (No Answers), which still has its question and no answer
C28_Witness ==
    /\ last.op = "AdvanceAssessment"
    /\ last.outcome = "null"
    /\ last.assessment_id \in DOMAIN assessments_db
    /\ assessments_db[last.assessment_id].status = "Analysis Failed (No Answers)"
    /\ assessments_db[last.assessment_id].questions # <<>>
    /\ assessments_db[last.assessment_id].answers = <<>>

\* C29: in every reachable state and for every assessment, no two stored
\* answers have the same question_id, every stored answer has the id of an
\* issued question of the assessment, and the answers are in the order in
\* which their questions were issued, also after an answer was submitted
\* again.
C29_AnswersFollowQuestions ==
    \A a \in DOMAIN assessments_db :
        LET questions == assessments_db[a].questions
            answers == assessments_db[a].answers
        IN /\ \A i, j \in DOMAIN answers :
                i # j => answers[i].question_id # answers[j].question_id
           /\ \A i \in DOMAIN answers :
                \E k \in DOMAIN questions : questions[k].id = answers[i].question_id
           /\ \A i, j \in DOMAIN answers :
                i < j => \E k, l \in DOMAIN questions :
                            /\ k < l
                            /\ questions[k].id = answers[i].question_id
                            /\ questions[l].id = answers[j].question_id

\* AdvanceAssessment has just dropped an answer that did not match the second
\* question and issued the third; the answer to the first question is stored
C29_Witness ==
    /\ last.op = "AdvanceAssessment"
    /\ last.answer_ignored
    /\ last.assessment_id \in DOMAIN assessments_db
    /\ Len(assessments_db[last.assessment_id].questions) = 3
    /\ Len(assessments_db[last.assessment_id].answers) = 1
    /\ assessments_db[last.assessment_id].answers[1].question_id =
         assessments_db[last.assessment_id].questions[1].id

\* C30: in every reachable state, every candidate with a profile in the
\* profile store is the candidate of at least one record of the assessment
\* store; hence no list ListSummaries returns has an entry of the branch
\* for a profile whose assessment data is missing.
C30_ProfilesHaveAssessments ==
    /\ \A c \in Stored :
         \E a \in DOMAIN assessments_db : assessments_db[a].candidate_id = c
    /\ \A summaries \in get_all_candidate_summaries(assessments_db, profiles_db) :
         \A i \in DOMAIN summaries :
            /\ summaries[i].assessment_id \in DOMAIN assessments_db
            /\ summaries[i].assessment_status # "Completed (Assessment data missing)"
    /\ last.op = "ListSummaries"
       => \A i \in DOMAIN last.summaries :
            /\ last.summaries[i].assessment_id \in DOMAIN assessments_db
            /\ last.summaries[i].assessment_status # "Completed (Assessment data missing)"

\* ListSummaries has just returned a list with an entry for a candidate who
\* has a profile and an entry for one who has none
C30_Witness ==
    /\ last.op = "ListSummaries"
    /\ \E i, j \in DOMAIN last.summaries :
         /\ last.summaries[i].profile_available
         /\ last.summaries[i].candidate_id \in Stored
         /\ ~last.summaries[j].profile_available

\* the assessments of a candidate, and the one created first
AssessmentsOf(c) == {a \in DOMAIN assessments_db : assessments_db[a].candidate_id = c}
Earliest(c) == CHOOSE a \in AssessmentsOf(c) : \A b \in AssessmentsOf(c) : a <= b

DecodedArray == Decoded.err = "none" /\ Decoded.value.kind = "list"

\* a 5-item array in which two items carry the same required trait name
RequiredTraitTwice ==
    /\ DecodedArray
    /\ Len(Decoded.value.items) = 5
    /\ \E i, j \in 1..5 :
         /\ i # j
         /\ Decoded.value.items[i].trait \in required_traits
         /\ Decoded.value.items[i].trait = Decoded.value.items[j].trait

\* a score int() cannot coerce
ScoreNotCoercible(sc) == sc.k \in {"badstr", "null", "inf"}

\* C32 as stated: the parser rejects as a whole every completion whose array
\* has an item with an unrecognized trait name, with a score that cannot be
\* coerced to an integer or with a score outside [0,100], and every 5-item
\* array in which a required trait name occurs twice.
C32_RejectsOutOfRangeItems ==
    (/\ parse_out # NotParsed
     /\ \/ /\ DecodedArray
           /\ \E i \in DOMAIN Decoded.value.items :
                \/ Decoded.value.items[i].trait \notin required_traits
                \/ ScoreNotCoercible(Decoded.value.items[i].score)
                \/ ScoreOutsideRange(Decoded.value.items[i].score)
        \/ RequiredTraitTwice)
    => ~parse_out.ok /\ parse_out.trait_scores = <<>>

\* C32: the parser never accepts a completion of which it skipped an item:
\* it rejects as a whole every completion whose array has an item with an
\* unrecognized trait name, or with a score that int() refuses or truncates
\* to an integer outside 0..100, and every 5-item array in which a required
\* trait name occurs twice; what it accepts has five trait scores, one for
\* each item of the array.
C32_NeverAcceptsSkippedItem ==
    /\ (/\ parse_out # NotParsed
        /\ \/ /\ DecodedArray
              /\ \E i \in DOMAIN Decoded.value.items :
                   \/ Decoded.value.items[i].trait \notin required_traits
                   \/ ScoreCoercesOutside(Decoded.value.items[i].score)
           \/ RequiredTraitTwice)
       => ~parse_out.ok /\ parse_out.trait_scores = <<>>
    /\ parse_out.ok
       => /\ DecodedArray
          /\ Len(Decoded.value.items) = 5
          /\ Len(parse_out.trait_scores) = 5
          /\ \A i \in 1..5 :
               parse_out.trait_scores[i].trait = Decoded.value.items[i].trait

\* the parser has refused a 5-item array of well-formed items with scores of
\* 50 in which one required trait name comes twice and another is missing
C32_Witness ==
    /\ parse_out # NotParsed
    /\ ~parse_out.ok
    /\ parse_out.why = "IncompleteAnalysis"
    /\ RequiredTraitTwice
    /\ \A i \in 1..5 :
         /\ OtherwiseValid(Decoded.value.items[i])
         /\ Decoded.value.items[i].score = ScoreVal("int", 50)

====
